---- MODULE Spec2Model ----
(***************************************************************************)
(* The WebSocket bridge of the Index wrapper (src/server.js).              *)
(*                                                                         *)
(*   Browser <--/ws--> Index Wrapper <--18789--> OpenClaw Gateway          *)
(*                                                                         *)
(* Every accepted browser connection owns a closure holding gatewaySocket, *)
(* buffer and alive.  Each event handler of server.js runs to completion   *)
(* on the Node event loop, so each handler is one atomic action.           *)
(*                                                                         *)
(* The /api/* proxy of server.js and the page's socket handling and chat   *)
(* sending (public/app.js) follow the bridge, each with a specification of *)
(* its own.                                                                *)
(***************************************************************************)
EXTENDS Integers, Sequences, FiniteSets, TLC

\* ---------------------------------------------------------------- bounds
\* Browser connections the server knows, and those a run accepts.  The
\* closures of different connections share no variable.
Clients == {1, 2}
Served == {1}
\* Frames all browsers together send during a run.
MaxClientFrames == 2
\* Frames the gateway sends during a run, over all upstream sockets.
MaxGatewayFrames == 2
\* Upstream sockets up to which the gateway may still fail or drop one.
MaxSockets == 2

\* The frame budgets for runs that serve every connection of Clients.
PairClientFrames == 1
PairGatewayFrames == 1
\* Upstream sockets in such a run: one for each connection, or a first and a
\* retried one for the same connection.
PairSockets == Cardinality(Clients)

\* WebSockets the page creates during a run, and chat messages it submits.
MaxPageSockets == 2
MaxChats == 2
\* /api/* requests the proxy handles during a run.
MaxRequests == 2
\* The status the proxy answers with when the gateway call fails.
BadGateway == 502
\* Status codes and body kinds the gateway answers with, and request methods.
GatewayStatuses == {200, 404, 500}
ContentTypes == {"json", "text"}
Methods == {"GET", "POST"}

\* Payload types the browser sends (wsSend in the client app).
ClientTypes == {"message"}

VARIABLES
    gatewayUrlOk,   \* whether new WebSocket(GATEWAY_WS) succeeds in this process
    clientState,    \* clientSocket.readyState per connection ("NONE" before accept)
    gatewaySocket,  \* the closure variable: 0 for null, else an index into socks
    buffer,         \* the closure variable: frames queued for the gateway
    alive,          \* the closure variable
    socks,          \* every upstream WebSocket the connection created, in order
    timers,         \* number of pending setTimeout(connectGateway, 3000) timers
    toClient,       \* history: frames passed to clientSocket.send
    toGateway,      \* history: frames passed to gatewaySocket.send, with the socket
    clientLog,      \* history: frames the browser delivered ('message' events)
    gatewayLog,     \* history: frames the gateway delivered ('message' events)
    attempts,       \* history: invocations of connectGateway
    closes,         \* history: upstream 'close' events handled
    wire,           \* history: every send call of the bridge, in program order
    pageSocks,      \* readyState of every WebSocket the page created, in order
    stateWs,        \* the page's state.ws: an index into pageSocks
    connected,      \* the page's state.connected
    pageTimers,     \* number of pending setTimeout(connectWS, 4000) timers
    seen,           \* how many entries of toClient the page's socket has delivered
    inflight,       \* chat frames the page sent that the bridge has not received
    chats,          \* history: the chat messages submitted in the page
    chatOf,         \* history: the chat message each entry of clientLog carries
    reqs,           \* the /api/* requests the proxy handles, in order of arrival
    gatewayGot      \* history: chat messages the gateway received, with the route

\* The page (public/app.js) and the REST proxy; the bridge does not touch them.
pageVars == <<pageSocks, stateWs, connected, pageTimers, seen, inflight, chats,
              chatOf, reqs, gatewayGot>>

bridgeVars == <<gatewayUrlOk, clientState, gatewaySocket, buffer, alive, socks,
                timers, toClient, toGateway, clientLog, gatewayLog, attempts,
                closes, wire>>

vars == <<gatewayUrlOk, clientState, gatewaySocket, buffer, alive, socks, timers,
          toClient, toGateway, clientLog, gatewayLog, attempts, closes, wire,
          pageSocks, stateWs, connected, pageTimers, seen, inflight, chats,
          chatOf, reqs, gatewayGot>>

\* ---------------------------------------------------------------- helpers
Sum(f) ==
    LET RECURSIVE S(_)
        S(D) == IF D = {} THEN 0
                ELSE LET d == CHOOSE x \in D : TRUE IN f[d] + S(D \ {d})
    IN S(DOMAIN f)

Socks(c) == 1..Len(socks[c])

TotalSockets == Sum([c \in Clients |-> Len(socks[c])])
TotalClientFrames == Sum([c \in Clients |-> Len(clientLog[c])])
TotalGatewayFrames == Sum([c \in Clients |-> Len(gatewayLog[c])])

\* The gateway may still refuse, fail or drop an upstream socket.
MayFail == TotalSockets < MaxSockets

\* ---------------------------------------------------------------- frames
ClientFrame(c, t) ==
    [by |-> "client", conn |-> c, type |-> t, state |-> "", n |-> Len(clientLog[c]) + 1]

GatewayFrame(c) ==
    [by |-> "gateway", conn |-> c, type |-> "pong", state |-> "",
     n |-> Len(gatewayLog[c]) + 1]

\* JSON.stringify({type: '__index_status', state, message, ts})
StatusFrame(c, state) ==
    [by |-> "bridge", conn |-> c, type |-> "__index_status", state |-> state, n |-> 0]

\* sendStatus(state, message): rs is clientSocket.readyState, out is what
\* clientSocket was sent so far.
SendStatus(c, rs, out, state) ==
    IF rs = "OPEN" THEN Append(out, StatusFrame(c, state)) ELSE out

\* A test of the handle alone: if (gatewaySocket) ...
GatewayIsOpen_NonNull(c, ss) == gatewaySocket[c] # 0

\* gatewaySocket?.readyState === WebSocket.OPEN, in the socket states ss.
GatewayIsOpen(c, ss) ==
    /\ gatewaySocket[c] # 0
    /\ ss[gatewaySocket[c]].readyState = "OPEN"

\* A flush that sends the connected notification on the upstream socket too.
Flush_StatusFirst(c, ss) ==
    IF GatewayIsOpen(c, ss)
    THEN <<[sock |-> gatewaySocket[c], f |-> StatusFrame(c, "connected")]>> \o
         [i \in 1..Len(buffer[c]) |-> [sock |-> gatewaySocket[c], f |-> buffer[c][i]]]
    ELSE <<>>

\* A flush that walks the buffer from the tail.
Flush_Reversed(c, ss) ==
    IF GatewayIsOpen(c, ss)
    THEN [i \in 1..Len(buffer[c]) |->
             [sock |-> gatewaySocket[c], f |-> buffer[c][Len(buffer[c]) + 1 - i]]]
    ELSE <<>>

\* buffer.forEach(msg => { if (gatewaySocket.readyState === OPEN) gatewaySocket.send(msg) })
Flush(c, ss) ==
    IF GatewayIsOpen(c, ss)
    THEN [i \in 1..Len(buffer[c]) |-> [sock |-> gatewaySocket[c], f |-> buffer[c][i]]]
    ELSE <<>>

\* buffer.unshift(data)
Enqueue_Front(buf, f) == <<f>> \o buf

\* buffer.push(data)
Enqueue(buf, f) == Append(buf, f)

\* clientSocket.send(data) without the readyState test
RelayToClient_Always(c, out, f) == Append(out, f)

\* if (clientSocket.readyState === WebSocket.OPEN) clientSocket.send(data)
RelayToClient(c, out, f) ==
    IF clientState[c] = "OPEN" THEN Append(out, f) ELSE out

\* The send calls socket `to` gets for the frames fs, in order.
OnWire(to, fs) == [i \in 1..Len(fs) |-> [to |-> to, f |-> fs[i]]]

\* gatewaySocket?.close(): ws moves a connecting or open socket to CLOSING.
CloseSocket(c) ==
    IF gatewaySocket[c] = 0 THEN socks[c]
    ELSE [socks[c] EXCEPT ![gatewaySocket[c]].readyState =
             IF @ \in {"CONNECTING", "OPEN"} THEN "CLOSING" ELSE @]

\* setTimeout(connectGateway, 3000) without the test of alive.
Schedule_Always(c) ==
    timers[c] + 1

\* if (alive) setTimeout(connectGateway, 3000)
Schedule(c) ==
    IF alive[c] THEN timers[c] + 1 ELSE timers[c]

\* ---------------------------------------------------------------- state
Init ==
    /\ gatewayUrlOk \in BOOLEAN
    /\ clientState = [c \in Clients |-> "NONE"]
    /\ gatewaySocket = [c \in Clients |-> 0]
    /\ buffer = [c \in Clients |-> <<>>]
    /\ alive = [c \in Clients |-> TRUE]
    /\ socks = [c \in Clients |-> <<>>]
    /\ timers = [c \in Clients |-> 0]
    /\ toClient = [c \in Clients |-> <<>>]
    /\ toGateway = [c \in Clients |-> <<>>]
    /\ clientLog = [c \in Clients |-> <<>>]
    /\ gatewayLog = [c \in Clients |-> <<>>]
    /\ attempts = [c \in Clients |-> 0]
    /\ closes = [c \in Clients |-> 0]
    /\ wire = [c \in Clients |-> <<>>]
    /\ pageSocks = <<[readyState |-> "CONNECTING", errored |-> FALSE]>>
    /\ stateWs = 1
    /\ connected = FALSE
    /\ pageTimers = 0
    /\ seen = 0
    /\ inflight = <<>>
    /\ chats = <<>>
    /\ chatOf = <<>>
    /\ reqs = <<>>
    /\ gatewayGot = <<>>

\* connectGateway(), called while clientSocket.readyState is rs.
ConnectGateway(c, rs) ==
    /\ attempts' = [attempts EXCEPT ![c] = @ + 1]
    /\ IF gatewayUrlOk
       THEN /\ socks' = [socks EXCEPT ![c] =
                   Append(@, [readyState |-> "CONNECTING", opened |-> FALSE,
                              errored |-> FALSE])]
            /\ gatewaySocket' = [gatewaySocket EXCEPT ![c] = Len(socks[c]) + 1]
            /\ UNCHANGED <<toClient, wire>>
       ELSE /\ toClient' = [toClient EXCEPT ![c] = SendStatus(c, rs, @, "error")]
            /\ wire' = [wire EXCEPT ![c] =
                   @ \o OnWire("client", SendStatus(c, rs, <<>>, "error"))]
            /\ UNCHANGED <<socks, gatewaySocket>>

\* wss.on('connection'): the closure is created and connectGateway() is called.
Accept(c) ==
    /\ clientState[c] = "NONE"
    /\ clientState' = [clientState EXCEPT ![c] = "OPEN"]
    /\ ConnectGateway(c, "OPEN")
    /\ UNCHANGED <<gatewayUrlOk, buffer, alive, timers, toGateway, clientLog,
                   gatewayLog, closes>>

\* clientSocket.on('message') with the buffer declared once outside the
\* connection handler instead of once per connection.
ClientMessage_SharedBuffer(c, t) ==
    /\ clientState[c] \in {"OPEN", "CLOSING"}
    /\ TotalClientFrames < MaxClientFrames
    /\ LET f == ClientFrame(c, t) IN
       /\ clientLog' = [clientLog EXCEPT ![c] =
              Append(@, [f |-> f,
                         up |-> \E s \in Socks(c) : socks[c][s].readyState = "OPEN",
                         epoch |-> Cardinality({s \in Socks(c) : socks[c][s].opened})])]
       /\ IF GatewayIsOpen(c, socks[c])
          THEN /\ toGateway' = [toGateway EXCEPT ![c] =
                      Append(@, [sock |-> gatewaySocket[c], f |-> f])]
               /\ wire' = [wire EXCEPT ![c] = @ \o OnWire("gateway", <<f>>)]
               /\ UNCHANGED buffer
          ELSE /\ buffer' = [d \in Clients |-> Enqueue(buffer[d], f)]
               /\ UNCHANGED <<toGateway, wire>>
    /\ UNCHANGED <<gatewayUrlOk, clientState, gatewaySocket, alive, socks, timers,
                   toClient, gatewayLog, attempts, closes>>

\* clientSocket.on('message')
ClientMessage(c, t) ==
    /\ clientState[c] \in {"OPEN", "CLOSING"}
    /\ TotalClientFrames < MaxClientFrames
    /\ LET f == ClientFrame(c, t) IN
       /\ clientLog' = [clientLog EXCEPT ![c] =
              Append(@, [f |-> f,
                         up |-> \E s \in Socks(c) : socks[c][s].readyState = "OPEN",
                         epoch |-> Cardinality({s \in Socks(c) : socks[c][s].opened})])]
       /\ IF GatewayIsOpen(c, socks[c])
          THEN /\ toGateway' = [toGateway EXCEPT ![c] =
                      Append(@, [sock |-> gatewaySocket[c], f |-> f])]
               /\ wire' = [wire EXCEPT ![c] = @ \o OnWire("gateway", <<f>>)]
               /\ UNCHANGED buffer
          ELSE /\ buffer' = [buffer EXCEPT ![c] = Enqueue(@, f)]
               /\ UNCHANGED <<toGateway, wire>>
    /\ UNCHANGED <<gatewayUrlOk, clientState, gatewaySocket, alive, socks, timers,
                   toClient, gatewayLog, attempts, closes>>

\* The browser starts closing: clientSocket.readyState leaves OPEN before the
\* 'close' event is emitted.
ClientClosing(c) ==
    /\ clientState[c] = "OPEN"
    /\ clientState' = [clientState EXCEPT ![c] = "CLOSING"]
    /\ UNCHANGED <<gatewayUrlOk, gatewaySocket, buffer, alive, socks, timers,
                   toClient, toGateway, clientLog, gatewayLog, attempts, closes,
                   wire>>

\* clientSocket.on('close')
ClientClose(c) ==
    /\ clientState[c] \in {"OPEN", "CLOSING"}
    /\ clientState' = [clientState EXCEPT ![c] = "CLOSED"]
    /\ alive' = [alive EXCEPT ![c] = FALSE]
    /\ socks' = [socks EXCEPT ![c] = CloseSocket(c)]
    /\ UNCHANGED <<gatewayUrlOk, gatewaySocket, buffer, timers, toClient, toGateway,
                   clientLog, gatewayLog, attempts, closes, wire>>

\* An open handler that flushes the buffer before it reports connected.
GatewayOpen_FlushFirst(c, s) ==
    /\ s \in Socks(c)
    /\ socks[c][s].readyState = "CONNECTING"
    /\ LET ss == [socks[c] EXCEPT ![s].readyState = "OPEN", ![s].opened = TRUE] IN
       /\ socks' = [socks EXCEPT ![c] = ss]
       /\ toClient' = [toClient EXCEPT ![c] = SendStatus(c, clientState[c], @, "connected")]
       /\ toGateway' = [toGateway EXCEPT ![c] = @ \o Flush(c, ss)]
       /\ wire' = [wire EXCEPT ![c] =
              @ \o OnWire("gateway", [i \in 1..Len(Flush(c, ss)) |-> Flush(c, ss)[i].f])
                \o OnWire("client", SendStatus(c, clientState[c], <<>>, "connected"))]
       /\ buffer' = [buffer EXCEPT ![c] = <<>>]
    /\ UNCHANGED <<gatewayUrlOk, clientState, gatewaySocket, alive, timers,
                   clientLog, gatewayLog, attempts, closes>>

\* An open handler that flushes the buffer without the buffer = [] after it.
GatewayOpen_KeepsBuffer(c, s) ==
    /\ s \in Socks(c)
    /\ socks[c][s].readyState = "CONNECTING"
    /\ LET ss == [socks[c] EXCEPT ![s].readyState = "OPEN", ![s].opened = TRUE] IN
       /\ socks' = [socks EXCEPT ![c] = ss]
       /\ toClient' = [toClient EXCEPT ![c] = SendStatus(c, clientState[c], @, "connected")]
       /\ toGateway' = [toGateway EXCEPT ![c] = @ \o Flush(c, ss)]
       /\ wire' = [wire EXCEPT ![c] =
              @ \o OnWire("client", SendStatus(c, clientState[c], <<>>, "connected"))
                \o OnWire("gateway", [i \in 1..Len(Flush(c, ss)) |-> Flush(c, ss)[i].f])]
    /\ UNCHANGED <<gatewayUrlOk, clientState, gatewaySocket, buffer, alive, timers,
                   clientLog, gatewayLog, attempts, closes>>

\* gatewaySocket.on('open') of upstream socket s
GatewayOpen(c, s) ==
    /\ s \in Socks(c)
    /\ socks[c][s].readyState = "CONNECTING"
    /\ LET ss == [socks[c] EXCEPT ![s].readyState = "OPEN", ![s].opened = TRUE] IN
       /\ socks' = [socks EXCEPT ![c] = ss]
       /\ toClient' = [toClient EXCEPT ![c] = SendStatus(c, clientState[c], @, "connected")]
       /\ toGateway' = [toGateway EXCEPT ![c] = @ \o Flush(c, ss)]
       /\ wire' = [wire EXCEPT ![c] =
              @ \o OnWire("client", SendStatus(c, clientState[c], <<>>, "connected"))
                \o OnWire("gateway", [i \in 1..Len(Flush(c, ss)) |-> Flush(c, ss)[i].f])]
       /\ buffer' = [buffer EXCEPT ![c] = <<>>]
    /\ UNCHANGED <<gatewayUrlOk, clientState, gatewaySocket, alive, timers,
                   clientLog, gatewayLog, attempts, closes>>

\* gatewaySocket.on('message') of upstream socket s
GatewayMessage(c, s) ==
    /\ s \in Socks(c)
    /\ socks[c][s].opened
    /\ socks[c][s].readyState \in {"OPEN", "CLOSING"}
    /\ TotalGatewayFrames < MaxGatewayFrames
    /\ LET f == GatewayFrame(c) IN
       /\ gatewayLog' = [gatewayLog EXCEPT ![c] =
              Append(@, [f |-> f, open |-> clientState[c] = "OPEN"])]
       /\ toClient' = [toClient EXCEPT ![c] = RelayToClient(c, @, f)]
       /\ wire' = [wire EXCEPT ![c] = @ \o OnWire("client", RelayToClient(c, <<>>, f))]
    /\ UNCHANGED <<gatewayUrlOk, clientState, gatewaySocket, buffer, alive, socks,
                   timers, toGateway, clientLog, attempts, closes>>

\* An error handler that also schedules a reconnect.
GatewayError_Reschedules(c, s) ==
    /\ s \in Socks(c)
    /\ socks[c][s].opened
    /\ ~socks[c][s].errored
    /\ \/ socks[c][s].readyState = "OPEN" /\ MayFail
       \/ socks[c][s].readyState = "CLOSING"
    /\ socks' = [socks EXCEPT ![c][s].readyState = "CLOSING", ![c][s].errored = TRUE]
    /\ toClient' = [toClient EXCEPT ![c] = SendStatus(c, clientState[c], @, "error")]
    /\ wire' = [wire EXCEPT ![c] =
           @ \o OnWire("client", SendStatus(c, clientState[c], <<>>, "error"))]
    /\ timers' = [timers EXCEPT ![c] = IF alive[c] THEN @ + 1 ELSE @]
    /\ UNCHANGED <<gatewayUrlOk, clientState, gatewaySocket, buffer, alive,
                   toGateway, clientLog, gatewayLog, attempts, closes>>

\* An error handler that gives the connection up.
GatewayError_Terminates(c, s) ==
    /\ s \in Socks(c)
    /\ socks[c][s].opened
    /\ ~socks[c][s].errored
    /\ \/ socks[c][s].readyState = "OPEN" /\ MayFail
       \/ socks[c][s].readyState = "CLOSING"
    /\ socks' = [socks EXCEPT ![c][s].readyState = "CLOSING", ![c][s].errored = TRUE]
    /\ toClient' = [toClient EXCEPT ![c] = SendStatus(c, clientState[c], @, "error")]
    /\ wire' = [wire EXCEPT ![c] =
           @ \o OnWire("client", SendStatus(c, clientState[c], <<>>, "error"))]
    /\ alive' = [alive EXCEPT ![c] = FALSE]
    /\ UNCHANGED <<gatewayUrlOk, clientState, gatewaySocket, buffer, timers,
                   toGateway, clientLog, gatewayLog, attempts, closes>>

\* gatewaySocket.on('error') of an established upstream socket s; ws leaves
\* the socket CLOSING and emits 'close' later.
GatewayError(c, s) ==
    /\ s \in Socks(c)
    /\ socks[c][s].opened
    /\ ~socks[c][s].errored
    /\ \/ socks[c][s].readyState = "OPEN" /\ MayFail
       \/ socks[c][s].readyState = "CLOSING"
    /\ socks' = [socks EXCEPT ![c][s].readyState = "CLOSING", ![c][s].errored = TRUE]
    /\ toClient' = [toClient EXCEPT ![c] = SendStatus(c, clientState[c], @, "error")]
    /\ wire' = [wire EXCEPT ![c] =
           @ \o OnWire("client", SendStatus(c, clientState[c], <<>>, "error"))]
    /\ UNCHANGED <<gatewayUrlOk, clientState, gatewaySocket, buffer, alive, timers,
                   toGateway, clientLog, gatewayLog, attempts, closes>>

\* The gateway starts the closing handshake of upstream socket s: readyState
\* leaves OPEN before the 'close' event is emitted.
GatewayClosing(c, s) ==
    /\ s \in Socks(c)
    /\ socks[c][s].readyState = "OPEN"
    /\ MayFail
    /\ socks' = [socks EXCEPT ![c][s].readyState = "CLOSING"]
    /\ UNCHANGED <<gatewayUrlOk, clientState, gatewaySocket, buffer, alive, timers,
                   toClient, toGateway, clientLog, gatewayLog, attempts, closes,
                   wire>>

\* A close handler that reports the close as an error.
GatewayClose_SaysError(c, s) ==
    /\ s \in Socks(c)
    /\ socks[c][s].opened
    /\ \/ socks[c][s].readyState = "OPEN" /\ MayFail
       \/ socks[c][s].readyState = "CLOSING"
    /\ socks' = [socks EXCEPT ![c][s].readyState = "CLOSED"]
    /\ toClient' = [toClient EXCEPT ![c] = SendStatus(c, clientState[c], @, "error")]
    /\ wire' = [wire EXCEPT ![c] =
           @ \o OnWire("client", SendStatus(c, clientState[c], <<>>, "error"))]
    /\ timers' = [timers EXCEPT ![c] = Schedule(c)]
    /\ closes' = [closes EXCEPT ![c] = @ + 1]
    /\ UNCHANGED <<gatewayUrlOk, clientState, gatewaySocket, buffer, alive,
                   toGateway, clientLog, gatewayLog, attempts>>

\* A close handler that also empties the buffer.
GatewayClose_ClearsBuffer(c, s) ==
    /\ s \in Socks(c)
    /\ socks[c][s].opened
    /\ \/ socks[c][s].readyState = "OPEN" /\ MayFail
       \/ socks[c][s].readyState = "CLOSING"
    /\ socks' = [socks EXCEPT ![c][s].readyState = "CLOSED"]
    /\ toClient' = [toClient EXCEPT ![c] = SendStatus(c, clientState[c], @, "disconnected")]
    /\ wire' = [wire EXCEPT ![c] =
           @ \o OnWire("client", SendStatus(c, clientState[c], <<>>, "disconnected"))]
    /\ timers' = [timers EXCEPT ![c] = Schedule(c)]
    /\ closes' = [closes EXCEPT ![c] = @ + 1]
    /\ buffer' = [buffer EXCEPT ![c] = <<>>]
    /\ UNCHANGED <<gatewayUrlOk, clientState, gatewaySocket, alive,
                   toGateway, clientLog, gatewayLog, attempts>>

\* A close handler that schedules the reconnect without telling the client.
GatewayClose_Silent(c, s) ==
    /\ s \in Socks(c)
    /\ socks[c][s].opened
    /\ \/ socks[c][s].readyState = "OPEN" /\ MayFail
       \/ socks[c][s].readyState = "CLOSING"
    /\ socks' = [socks EXCEPT ![c][s].readyState = "CLOSED"]
    /\ timers' = [timers EXCEPT ![c] = Schedule(c)]
    /\ closes' = [closes EXCEPT ![c] = @ + 1]
    /\ UNCHANGED <<gatewayUrlOk, clientState, gatewaySocket, buffer, alive,
                   toClient, toGateway, clientLog, gatewayLog, attempts, wire>>

\* gatewaySocket.on('close') of an established upstream socket s
GatewayClose(c, s) ==
    /\ s \in Socks(c)
    /\ socks[c][s].opened
    /\ \/ socks[c][s].readyState = "OPEN" /\ MayFail
       \/ socks[c][s].readyState = "CLOSING"
    /\ socks' = [socks EXCEPT ![c][s].readyState = "CLOSED"]
    /\ toClient' = [toClient EXCEPT ![c] = SendStatus(c, clientState[c], @, "disconnected")]
    /\ wire' = [wire EXCEPT ![c] =
           @ \o OnWire("client", SendStatus(c, clientState[c], <<>>, "disconnected"))]
    /\ timers' = [timers EXCEPT ![c] = Schedule(c)]
    /\ closes' = [closes EXCEPT ![c] = @ + 1]
    /\ UNCHANGED <<gatewayUrlOk, clientState, gatewaySocket, buffer, alive,
                   toGateway, clientLog, gatewayLog, attempts>>

\* A failed handshake whose close handler also empties the buffer.
GatewayConnectFail_DropsBuffer(c, s) ==
    /\ s \in Socks(c)
    /\ ~socks[c][s].opened
    /\ \/ socks[c][s].readyState = "CONNECTING" /\ MayFail
       \/ socks[c][s].readyState = "CLOSING"
    /\ socks' = [socks EXCEPT ![c][s].readyState = "CLOSED", ![c][s].errored = TRUE]
    /\ toClient' = [toClient EXCEPT ![c] =
           SendStatus(c, clientState[c], SendStatus(c, clientState[c], @, "error"),
                      "disconnected")]
    /\ wire' = [wire EXCEPT ![c] =
           @ \o OnWire("client", SendStatus(c, clientState[c],
                                  SendStatus(c, clientState[c], <<>>, "error"),
                                  "disconnected"))]
    /\ timers' = [timers EXCEPT ![c] = Schedule(c)]
    /\ closes' = [closes EXCEPT ![c] = @ + 1]
    /\ buffer' = [buffer EXCEPT ![c] = <<>>]
    /\ UNCHANGED <<gatewayUrlOk, clientState, gatewaySocket, alive,
                   toGateway, clientLog, gatewayLog, attempts>>

\* A failed attempt whose error handler schedules a reconnect as the close
\* handler does.
GatewayConnectFail_TwoTimers(c, s) ==
    /\ s \in Socks(c)
    /\ ~socks[c][s].opened
    /\ \/ socks[c][s].readyState = "CONNECTING" /\ MayFail
       \/ socks[c][s].readyState = "CLOSING"
    /\ socks' = [socks EXCEPT ![c][s].readyState = "CLOSED", ![c][s].errored = TRUE]
    /\ toClient' = [toClient EXCEPT ![c] =
           SendStatus(c, clientState[c], SendStatus(c, clientState[c], @, "error"),
                      "disconnected")]
    /\ wire' = [wire EXCEPT ![c] =
           @ \o OnWire("client", SendStatus(c, clientState[c],
                                  SendStatus(c, clientState[c], <<>>, "error"),
                                  "disconnected"))]
    /\ timers' = [timers EXCEPT ![c] = IF alive[c] THEN @ + 2 ELSE @]
    /\ closes' = [closes EXCEPT ![c] = @ + 1]
    /\ UNCHANGED <<gatewayUrlOk, clientState, gatewaySocket, buffer, alive,
                   toGateway, clientLog, gatewayLog, attempts>>

\* A connect attempt of upstream socket s fails (refused, handshake timeout,
\* or closed before established): ws emits 'error' and then 'close' in one go.
GatewayConnectFail(c, s) ==
    /\ s \in Socks(c)
    /\ ~socks[c][s].opened
    /\ \/ socks[c][s].readyState = "CONNECTING" /\ MayFail
       \/ socks[c][s].readyState = "CLOSING"
    /\ socks' = [socks EXCEPT ![c][s].readyState = "CLOSED", ![c][s].errored = TRUE]
    /\ toClient' = [toClient EXCEPT ![c] =
           SendStatus(c, clientState[c], SendStatus(c, clientState[c], @, "error"),
                      "disconnected")]
    /\ wire' = [wire EXCEPT ![c] =
           @ \o OnWire("client", SendStatus(c, clientState[c],
                                  SendStatus(c, clientState[c], <<>>, "error"),
                                  "disconnected"))]
    /\ timers' = [timers EXCEPT ![c] = Schedule(c)]
    /\ closes' = [closes EXCEPT ![c] = @ + 1]
    /\ UNCHANGED <<gatewayUrlOk, clientState, gatewaySocket, buffer, alive,
                   toGateway, clientLog, gatewayLog, attempts>>

\* setInterval in place of setTimeout: the timer stays armed after it fired.
TimerFire_Interval(c) ==
    /\ timers[c] > 0
    /\ ConnectGateway(c, clientState[c])
    /\ UNCHANGED <<gatewayUrlOk, clientState, buffer, alive, timers, toGateway,
                   clientLog, gatewayLog, closes>>

\* A pending timer expires and calls connectGateway.
TimerFire(c) ==
    /\ timers[c] > 0
    /\ timers' = [timers EXCEPT ![c] = @ - 1]
    /\ ConnectGateway(c, clientState[c])
    /\ UNCHANGED <<gatewayUrlOk, clientState, buffer, alive, toGateway, clientLog,
                   gatewayLog, closes>>

Next ==
    \/ \E c \in Served : Accept(c) /\ UNCHANGED pageVars
    \/ \E c \in Served : \E t \in ClientTypes : ClientMessage(c, t) /\ UNCHANGED pageVars
    \/ \E c \in Served : ClientClosing(c) /\ UNCHANGED pageVars
    \/ \E c \in Served : ClientClose(c) /\ UNCHANGED pageVars
    \/ \E c \in Served : \E s \in Socks(c) : GatewayOpen(c, s) /\ UNCHANGED pageVars
    \/ \E c \in Served : \E s \in Socks(c) : GatewayMessage(c, s) /\ UNCHANGED pageVars
    \/ \E c \in Served : \E s \in Socks(c) : GatewayError(c, s) /\ UNCHANGED pageVars
    \/ \E c \in Served : \E s \in Socks(c) : GatewayClosing(c, s) /\ UNCHANGED pageVars
    \/ \E c \in Served : \E s \in Socks(c) : GatewayClose(c, s) /\ UNCHANGED pageVars
    \/ \E c \in Served : \E s \in Socks(c) : GatewayConnectFail(c, s) /\ UNCHANGED pageVars
    \/ \E c \in Served : TimerFire(c) /\ UNCHANGED pageVars

Spec == Init /\ [][Next]_vars

\* ---------------------------------------------------------------- observations
\* The payloads of a history, in order.
Frames(log) == [i \in 1..Len(log) |-> log[i].f]

\* Upstream sockets of c that reached OPEN so far.
Opened(c) == Cardinality({s \in Socks(c) : socks[c][s].opened})

\* Upstream sockets of c that are connecting or open.
Live(c) == {s \in Socks(c) : socks[c][s].readyState \in {"CONNECTING", "OPEN"}}

\* The frames the browser delivered while no upstream socket was open, since
\* the last upstream socket opened (or since the accept).
OutageFrames(c) ==
    LET Queued(e) == ~e.up /\ e.epoch = Opened(c)
    IN Frames(SelectSeq(clientLog[c], Queued))

\* An upstream socket of c reaches OPEN in this step.
Opens(c, s) == socks[c][s].readyState # "OPEN" /\ socks'[c][s].readyState = "OPEN"

\* ---------------------------------------------------------------- claims

\* C1: when an upstream socket opens, exactly the frames the browser delivered
\* while no upstream was open are sent to that socket, in the order the
\* browser sent them, none dropped and none duplicated.
C1_OutageFramesFlushedInOrder ==
    [][\A c \in Clients : \A s \in Socks(c) :
          Opens(c, s) =>
              toGateway'[c] = toGateway[c] \o
                  [i \in 1..Len(OutageFrames(c)) |->
                      [sock |-> s, f |-> OutageFrames(c)[i]]]]_vars

\* Two frames queued during an outage were flushed to the socket that opened.
C1_Witness ==
    \E c \in Clients :
        /\ Len(clientLog[c]) = 2
        /\ ~clientLog[c][1].up /\ ~clientLog[c][2].up
        /\ clientLog[c][1].epoch = clientLog[c][2].epoch
        /\ Len(toGateway[c]) = 2
        /\ buffer[c] = <<>>

\* C2 (as stated): once the browser's close event is handled, no reconnect
\* timer is pending and no upstream socket is connecting or open.
C2_NothingOutlivesClient ==
    \A c \in Clients :
        clientState[c] = "CLOSED" => timers[c] = 0 /\ Live(c) = {}

\* C3 (as stated): once the browser connection has closed, connectGateway is
\* never invoked again for it.
C3_NoConnectAfterClientClose ==
    [][\A c \in Clients :
          clientState[c] = "CLOSED" => attempts'[c] = attempts[c]]_vars

\* C4: at most one upstream socket is connecting or open, and live upstream
\* sockets plus pending reconnect timers never exceed one.
C4_OneUpstreamOrTimer ==
    \A c \in Clients : Cardinality(Live(c)) + timers[c] <= 1

\* After one upstream close and its reconnect the second socket is open.
C4_Witness ==
    \E c \in Clients :
        /\ Len(socks[c]) = 2
        /\ socks[c][2].readyState = "OPEN"
        /\ closes[c] = 1

\* C5: while the browser connection is alive every upstream close accounts for
\* exactly one connect attempt, made or still pending on its timer, and an
\* attempt is only ever started by the accept or by a timer expiring, never
\* within the handling of a close.
C5_OneAttemptPerClose ==
    /\ [](\A c \in Clients :
            alive[c] /\ clientState[c] # "NONE" =>
                attempts[c] + timers[c] = 1 + closes[c])
    /\ [][\A c \in Clients :
            attempts'[c] # attempts[c] =>
                /\ attempts'[c] = attempts[c] + 1
                /\ closes'[c] = closes[c]
                /\ clientState[c] = "NONE" \/ timers'[c] = timers[c] - 1]_vars

\* One upstream close was followed by its one reconnect attempt.
C5_Witness ==
    \E c \in Clients :
        alive[c] /\ closes[c] = 1 /\ attempts[c] = 2 /\ timers[c] = 0

\* A connect attempt of c fails in this step: the handshake of a connecting
\* socket fails, or the socket could not be created at all.
FailedAttempt(c) ==
    \/ \E s \in Socks(c) :
           /\ socks[c][s].readyState = "CONNECTING"
           /\ socks'[c][s].readyState = "CLOSED"
    \/ attempts'[c] = attempts[c] + 1 /\ Len(socks'[c]) = Len(socks[c])

\* What clientSocket is sent in this step.
SentToClientNow(c) ==
    {toClient'[c][i] : i \in (Len(toClient[c]) + 1)..Len(toClient'[c])}

\* C6 (as stated): a failed connect attempt, a failure to create the socket
\* included, sends the open client an error status and leaves a reconnect
\* scheduled, the client connection staying open.
C6_FailedAttemptReportedAndRetried ==
    [][\A c \in Clients :
          FailedAttempt(c) /\ clientState'[c] = "OPEN" =>
              /\ StatusFrame(c, "error") \in SentToClientNow(c)
              /\ timers'[c] >= 1
              /\ alive'[c]]_vars

\* Timers expire: Node runs every due setTimeout callback.
FairSpec == Spec /\ \A c \in Served : WF_vars(TimerFire(c) /\ UNCHANGED pageVars)

\* Every upstream socket c created is closed (none was created, too).
UpstreamDown(c) == \A s \in Socks(c) : socks[c][s].readyState = "CLOSED"

\* C7 (as stated): while the browser connection stays open the bridge never
\* stays forever without an upstream connection: a new attempt follows.
C7_RetriesWhileClientOpen ==
    \A c \in Clients :
        [](clientState[c] = "OPEN" /\ UpstreamDown(c) =>
              <>(clientState[c] # "OPEN" \/ ~UpstreamDown(c)))

\* C8: over the whole life of a connection the frames sent upstream followed
\* by the frames still queued are exactly the frames the browser sent, in the
\* browser's order: no frame overtakes an earlier one.
C8_ClientOrderPreserved ==
    \A c \in Clients : Frames(clientLog[c]) = Frames(toGateway[c]) \o buffer[c]

\* A frame sent live on the first socket, then one queued during the outage
\* and flushed on the second socket.
C8_Witness ==
    \E c \in Clients :
        /\ Len(toGateway[c]) = 2
        /\ toGateway[c][1].sock = 1 /\ clientLog[c][1].up
        /\ toGateway[c][2].sock = 2 /\ ~clientLog[c][2].up

\* The gateway frames among what the client was sent.
Relayed(c) ==
    LET FromGateway(f) == f.by = "gateway" IN SelectSeq(toClient[c], FromGateway)

\* The gateway frames that arrived while clientSocket was OPEN.
ArrivedWhileOpen(c) ==
    LET WasOpen(e) == e.open IN Frames(SelectSeq(gatewayLog[c], WasOpen))

\* C9: the frames relayed to the client are exactly the upstream frames that
\* arrived while the client was open, unmodified, in arrival order, once each;
\* an upstream frame arriving when the client is not open changes nothing.
C9_UpstreamFramesRelayed ==
    /\ [](\A c \in Clients : Relayed(c) = ArrivedWhileOpen(c))
    /\ [][\A c \in Clients :
            Len(gatewayLog'[c]) > Len(gatewayLog[c]) /\ clientState[c] # "OPEN" =>
                UNCHANGED <<clientState, gatewaySocket, buffer, alive, socks,
                            timers, toClient, toGateway>>]_vars

\* One upstream frame was relayed and a later one was dropped.
C9_Witness ==
    \E c \in Clients :
        /\ Len(gatewayLog[c]) = 2
        /\ gatewayLog[c][1].open /\ ~gatewayLog[c][2].open
        /\ Len(Relayed(c)) = 1

\* C10: nothing sent to the gateway and nothing in the buffer is a status
\* notification made by the bridge; all of it comes from the browser.
C10_StatusNeverUpstream ==
    \A c \in Clients :
        /\ \A i \in 1..Len(toGateway[c]) : toGateway[c][i].f.by = "client"
        /\ \A i \in 1..Len(buffer[c]) : buffer[c][i].by = "client"

\* The client got a connected status while a frame went upstream and another
\* waits in the buffer.
C10_Witness ==
    \E c \in Clients :
        /\ StatusFrame(c, "connected") \in {toClient[c][i] : i \in 1..Len(toClient[c])}
        /\ StatusFrame(c, "disconnected") \in {toClient[c][i] : i \in 1..Len(toClient[c])}
        /\ Len(toGateway[c]) = 1
        /\ Len(buffer[c]) = 1

\* The send calls of this step, in program order.
NewOnWire(c) == SubSeq(wire'[c], Len(wire[c]) + 1, Len(wire'[c]))

\* How often frame f was passed to gatewaySocket.send.
TimesSentUp(c, f, log) == Cardinality({i \in 1..Len(log) : log[i].f = f})

\* C11: when an upstream socket opens while the client is open, the handler
\* first sends the client the connected status and then sends the upstream
\* the buffered frames, and each of them has then gone upstream exactly once.
C11_ConnectedBeforeFlush ==
    [][\A c \in Clients : \A s \in Socks(c) :
          Opens(c, s) /\ clientState[c] = "OPEN" =>
              /\ NewOnWire(c) =
                     <<[to |-> "client", f |-> StatusFrame(c, "connected")]>> \o
                     [i \in 1..Len(buffer[c]) |-> [to |-> "gateway", f |-> buffer[c][i]]]
              /\ \A i \in 1..Len(buffer[c]) :
                     TimesSentUp(c, buffer[c][i], toGateway'[c]) = 1]_vars

\* A frame queued before the upstream was ready went upstream right after the
\* connected status went to the client.
C11_Witness ==
    \E c \in Clients : \E i \in 1..Len(wire[c]) :
        /\ i < Len(wire[c])
        /\ wire[c][i] = [to |-> "client", f |-> StatusFrame(c, "connected")]
        /\ wire[c][i + 1].to = "gateway"
        /\ wire[c][i + 1].f = clientLog[c][1].f
        /\ ~clientLog[c][1].up

\* The states of the status notifications the upstream events of this step
\* call for: an open, an error, a close of socket s, in the order ws emits them.
StatesDue(c, s) ==
    (IF Opens(c, s) THEN <<"connected">> ELSE <<>>) \o
    (IF ~socks[c][s].errored /\ socks'[c][s].errored THEN <<"error">> ELSE <<>>) \o
    (IF socks[c][s].readyState # "CLOSED" /\ socks'[c][s].readyState = "CLOSED"
     THEN <<"disconnected">> ELSE <<>>)

\* C12: every upstream open, close and error event handled while the client
\* is open sends the client, within that step, exactly one notification of
\* type __index_status carrying connected, disconnected or error accordingly.
C12_OneStatusPerUpstreamEvent ==
    [][\A c \in Clients : \A s \in Socks(c) :
          clientState[c] = "OPEN" /\ StatesDue(c, s) # <<>> =>
              LET new == SubSeq(toClient'[c], Len(toClient[c]) + 1, Len(toClient'[c]))
              IN /\ Len(new) = Len(StatesDue(c, s))
                 /\ \A i \in 1..Len(new) :
                        /\ new[i].by = "bridge"
                        /\ new[i].type = "__index_status"
                        /\ new[i].state = StatesDue(c, s)[i]]_vars

\* The client was told connected, error and disconnected for one socket.
C12_Witness ==
    \E c \in Clients :
        /\ clientState[c] = "OPEN"
        /\ Len(socks[c]) >= 1
        /\ socks[c][1].opened /\ socks[c][1].errored
        /\ socks[c][1].readyState = "CLOSED"
        /\ [i \in 1..Len(toClient[c]) |-> toClient[c][i].state] =
               <<"connected", "error", "disconnected">>

\* The n-th frame the browser delivered waits in the buffer.
Pending(c, n) ==
    /\ n <= Len(clientLog[c])
    /\ \E i \in 1..Len(buffer[c]) : buffer[c][i] = clientLog[c][n].f

\* The n-th frame the browser delivered was passed to gatewaySocket.send.
SentUp(c, n) ==
    /\ n <= Len(clientLog[c])
    /\ \E i \in 1..Len(toGateway[c]) : toGateway[c][i].f = clientLog[c][n].f

\* An upstream socket of c is open while the client is open.
Relaying(c) ==
    /\ clientState[c] = "OPEN"
    /\ \E s \in Socks(c) : socks[c][s].readyState = "OPEN"

\* C13: whenever the upstream has accepted a connection while the client is
\* open, every frame the browser delivered before has been sent upstream: a
\* queued frame goes up in the step of the first open that follows, whatever
\* attempts failed in between.
C13_QueuedFramesDelivered ==
    /\ [](\A c \in Clients :
            Relaying(c) => \A n \in 1..Len(clientLog[c]) : SentUp(c, n))
    /\ [][\A c \in Clients : \A s \in Socks(c) : \A n \in 1..MaxClientFrames :
            Opens(c, s) /\ Pending(c, n) => SentUp(c, n)']_vars

\* A frame queued before a connect attempt failed went upstream on the second
\* socket, the first one that opened.
C13_Witness ==
    \E c \in Clients :
        /\ Len(socks[c]) = 2
        /\ ~socks[c][1].opened /\ socks[c][1].readyState = "CLOSED"
        /\ socks[c][2].readyState = "OPEN"
        /\ clientState[c] = "OPEN"
        /\ Len(clientLog[c]) >= 1 /\ clientLog[c][1].epoch = 0
        /\ Len(toGateway[c]) >= 1
        /\ toGateway[c][1] = [sock |-> 2, f |-> clientLog[c][1].f]
        /\ Len(toClient[c]) >= 2 /\ toClient[c][1].state = "error"

\* C14 (as stated): once the browser's close event is handled nothing more is
\* sent to the upstream: the frames left in the buffer are discarded.
C14_BufferDiscardedOnClientClose ==
    [][\A c \in Clients :
          clientState[c] = "CLOSED" => toGateway'[c] = toGateway[c]]_vars

\* The browser delivers a frame to connection c in this step.
Receives(c) == Len(clientLog'[c]) = Len(clientLog[c]) + 1

\* C15: a frame received from the browser is either sent at once, unmodified,
\* to the open upstream socket, the buffer staying as it is, or, when no
\* upstream socket is open (none yet, connecting, closing or closed), appended
\* to the tail of the buffer with nothing sent upstream; never both, never
\* neither.
C15_SentOrQueued ==
    [][\A c \in Clients :
          Receives(c) =>
              LET f == clientLog'[c][Len(clientLog'[c])].f
                  open == {s \in Socks(c) : socks[c][s].readyState = "OPEN"}
              IN IF open # {}
                 THEN /\ \E s \in open :
                            toGateway'[c] = Append(toGateway[c], [sock |-> s, f |-> f])
                      /\ buffer'[c] = buffer[c]
                 ELSE /\ buffer'[c] = Append(buffer[c], f)
                      /\ toGateway'[c] = toGateway[c]]_vars

\* One frame went straight to the open socket; the next one, received while
\* that socket was closing, waits in the buffer.
C15_Witness ==
    \E c \in Clients :
        /\ Len(clientLog[c]) = 2
        /\ clientLog[c][1].up /\ ~clientLog[c][2].up
        /\ toGateway[c] = <<[sock |-> 1, f |-> clientLog[c][1].f]>>
        /\ buffer[c] = <<clientLog[c][2].f>>
        /\ socks[c][1].readyState = "CLOSING"

\* ---------------------------------------------------------------- two connections
PairBudget ==
    /\ TotalClientFrames <= PairClientFrames
    /\ TotalGatewayFrames <= PairGatewayFrames
    /\ TotalSockets <= PairSockets

\* The handlers of every connection of Clients, on the one event loop.
Arrives(c) == \A d \in Clients : d < c => clientState[d] # "NONE"

PairNext ==
    \/ \E c \in Clients : Arrives(c) /\ Accept(c) /\ PairBudget' /\ UNCHANGED pageVars
    \/ \E c \in Clients : \E t \in ClientTypes : ClientMessage(c, t) /\ PairBudget' /\ UNCHANGED pageVars
    \/ \E c \in Clients : ClientClosing(c) /\ PairBudget' /\ UNCHANGED pageVars
    \/ \E c \in Clients : ClientClose(c) /\ PairBudget' /\ UNCHANGED pageVars
    \/ \E c \in Clients : \E s \in Socks(c) : GatewayOpen(c, s) /\ PairBudget' /\ UNCHANGED pageVars
    \/ \E c \in Clients : \E s \in Socks(c) : GatewayMessage(c, s) /\ PairBudget' /\ UNCHANGED pageVars
    \/ \E c \in Clients : \E s \in Socks(c) : GatewayError(c, s) /\ PairBudget' /\ UNCHANGED pageVars
    \/ \E c \in Clients : \E s \in Socks(c) : GatewayClosing(c, s) /\ PairBudget' /\ UNCHANGED pageVars
    \/ \E c \in Clients : \E s \in Socks(c) : GatewayClose(c, s) /\ PairBudget' /\ UNCHANGED pageVars
    \/ \E c \in Clients : \E s \in Socks(c) : GatewayConnectFail(c, s) /\ PairBudget' /\ UNCHANGED pageVars
    \/ \E c \in Clients : TimerFire(c) /\ PairBudget' /\ UNCHANGED pageVars

PairSpec == Init /\ [][PairNext]_vars

\* Everything the closure of connection c holds, and everything it has sent
\* and received.
Connection(c) ==
    <<clientState[c], gatewaySocket[c], buffer[c], alive[c], socks[c], timers[c],
      toClient[c], toGateway[c], clientLog[c], gatewayLog[c], attempts[c],
      closes[c], wire[c]>>

\* The frames that connection c holds or has sent are its own.
OwnFrames(c) ==
    /\ \A i \in 1..Len(buffer[c]) : buffer[c][i].by = "client" /\ buffer[c][i].conn = c
    /\ \A i \in 1..Len(toGateway[c]) :
           /\ toGateway[c][i].f.by = "client" /\ toGateway[c][i].f.conn = c
           /\ toGateway[c][i].sock \in Socks(c)
    /\ \A i \in 1..Len(toClient[c]) :
           toClient[c][i].by # "client" /\ toClient[c][i].conn = c

\* C16: the connections are independent. An event on one client connection
\* (client frame, client close, upstream open, close, error or message, timer
\* expiry) leaves the upstream handle, the pending buffer and the liveness flag
\* of every other connection as they were, and a frame of client A is never
\* queued for, sent to the upstream of, or sent to the socket of client B.
C16_ConnectionsIndependent ==
    /\ [](\A c \in Clients : OwnFrames(c))
    /\ [][\A a, b \in Clients :
            a # b /\ Connection(a)' # Connection(a) =>
                /\ gatewaySocket'[b] = gatewaySocket[b]
                /\ buffer'[b] = buffer[b]
                /\ alive'[b] = alive[b]
                /\ Connection(b)' = Connection(b)]_vars

\* Both connections are being served, each with its own upstream socket open;
\* client 1 queued a frame during its outage and it went up on its own socket,
\* while connection 2 queued and sent nothing.
C16_Witness ==
    /\ \A c \in Clients : clientState[c] = "OPEN" /\ alive[c] /\ GatewayIsOpen(c, socks[c])
    /\ gatewaySocket[1] = 1 /\ gatewaySocket[2] = 1
    /\ Len(clientLog[1]) = 1 /\ ~clientLog[1][1].up
    /\ toGateway[1] = <<[sock |-> 1, f |-> clientLog[1][1].f]>>
    /\ buffer[2] = <<>> /\ toGateway[2] = <<>>

\* An upstream-side event of c is handled in this step: an open, error or
\* close event of one of its sockets, a frame from the gateway, or a socket
\* that could not be created.
UpstreamEvent(c) ==
    \/ \E s \in Socks(c) : StatesDue(c, s) # <<>>
    \/ gatewayLog'[c] # gatewayLog[c]
    \/ FailedAttempt(c)

\* C17: no upstream-side event (connect failure, error, close, message) closes
\* the client connection or clears its liveness flag; the flag is cleared
\* only in the step that handles the client's own close event, and it is set
\* for as long as that event has not been handled.
C17_UpstreamNeverTerminates ==
    /\ [](\A c \in Clients : alive[c] <=> clientState[c] # "CLOSED")
    /\ [][\A c \in Clients :
            /\ UpstreamEvent(c) =>
                   /\ alive'[c] = alive[c]
                   /\ clientState[c] # "NONE" => clientState'[c] = clientState[c]
                   /\ clientState'[c] = "CLOSED" => clientState[c] = "CLOSED"
            /\ alive'[c] # alive[c] =>
                   /\ clientState[c] \in {"OPEN", "CLOSING"}
                   /\ clientState'[c] = "CLOSED"
                   /\ ~UpstreamEvent(c)]_vars

\* The upstream of an open client has opened, relayed a frame, failed with an
\* error and closed, and the connection is still alive and open.
C17_Witness ==
    \E c \in Clients :
        /\ alive[c] /\ clientState[c] = "OPEN"
        /\ closes[c] = 1 /\ gatewayLog[c] # <<>>
        /\ socks[c][1].opened /\ socks[c][1].errored
        /\ socks[c][1].readyState = "CLOSED"

\* An upstream socket of c is open, its 'open' event handled.
UpstreamOpen(c) == \E s \in Socks(c) : socks[c][s].readyState = "OPEN"

\* C18: whenever the upstream connection is open and its open event has been
\* handled, the pending buffer is empty: every upstream-open event leaves the
\* buffer empty, and a client frame received while the upstream is open is not
\* put into it.
C18_BufferEmptyWhileOpen ==
    /\ [](\A c \in Clients : UpstreamOpen(c) => buffer[c] = <<>>)
    /\ [][\A c \in Clients :
            /\ \A s \in Socks(c) : Opens(c, s) => buffer'[c] = <<>>
            /\ Receives(c) /\ UpstreamOpen(c) => buffer'[c] = <<>>]_vars

\* The upstream is open and the buffer empty after a frame was queued during
\* the outage and flushed by the open, and a second one was received while
\* the upstream was open.
C18_Witness ==
    \E c \in Clients :
        /\ UpstreamOpen(c) /\ buffer[c] = <<>>
        /\ Len(clientLog[c]) = 2
        /\ ~clientLog[c][1].up /\ clientLog[c][2].up
        /\ Len(toGateway[c]) = 2

\* C19: an upstream error event by itself only sends an error status: it
\* schedules no reconnect timer, creates no upstream socket and leaves the
\* buffer as it is; so a failed attempt, which raises an error event and a
\* close event, schedules exactly one reconnect while the connection is alive.
C19_ErrorAloneSchedulesNothing ==
    [][\A c \in Clients : \A s \in Socks(c) :
          /\ StatesDue(c, s) = <<"error">> =>
                 /\ timers'[c] = timers[c]
                 /\ Len(socks'[c]) = Len(socks[c])
                 /\ attempts'[c] = attempts[c]
                 /\ gatewaySocket'[c] = gatewaySocket[c]
                 /\ buffer'[c] = buffer[c]
                 /\ toGateway'[c] = toGateway[c]
                 /\ toClient'[c] = SendStatus(c, clientState[c], toClient[c], "error")
          /\ StatesDue(c, s) = <<"error", "disconnected">> =>
                 /\ timers'[c] = timers[c] + (IF alive[c] THEN 1 ELSE 0)
                 /\ Len(socks'[c]) = Len(socks[c])
                 /\ attempts'[c] = attempts[c]
                 /\ buffer'[c] = buffer[c]]_vars

\* The first attempt of an open client failed with an error and a close: both
\* were reported and one reconnect is scheduled.
C19_Witness ==
    \E c \in Clients :
        /\ alive[c] /\ clientState[c] = "OPEN"
        /\ Len(socks[c]) = 1 /\ attempts[c] = 1
        /\ ~socks[c][1].opened /\ socks[c][1].errored
        /\ socks[c][1].readyState = "CLOSED"
        /\ closes[c] = 1 /\ timers[c] = 1
        /\ toClient[c] = <<StatusFrame(c, "error"), StatusFrame(c, "disconnected")>>

\* The client's close event is handled in this step.
ClientCloses(c) == clientState[c] # "CLOSED" /\ clientState'[c] = "CLOSED"

\* C20: an upstream socket that is connecting or open when the client closes
\* has close called on it by the client-close handler, and an upstream close
\* event handled after that schedules no reconnect timer, alive being false
\* by then.
C20_ClientCloseClosesUpstream ==
    [][\A c \in Clients :
          /\ ClientCloses(c) =>
                 /\ \A s \in Live(c) : socks'[c][s].readyState = "CLOSING"
                 /\ ~alive'[c]
          /\ \A s \in Socks(c) :
                 /\ clientState[c] = "CLOSED"
                 /\ socks[c][s].readyState # "CLOSED"
                 /\ socks'[c][s].readyState = "CLOSED"
                 => ~alive[c] /\ timers'[c] = timers[c]]_vars

\* The client closed while its upstream was open; the upstream's close event
\* was handled afterwards (the client was never told of it) and no timer is
\* pending.
C20_Witness ==
    \E c \in Clients :
        /\ clientState[c] = "CLOSED" /\ ~alive[c]
        /\ Len(socks[c]) = 1 /\ attempts[c] = 1
        /\ socks[c][1].opened /\ socks[c][1].readyState = "CLOSED"
        /\ closes[c] = 1 /\ timers[c] = 0
        /\ toClient[c] = <<StatusFrame(c, "connected")>>

\* A reconnect timer of c expires in this step.
TimerExpires(c) == clientState[c] # "NONE" /\ attempts'[c] = attempts[c] + 1

\* An upstream socket of c emits 'open' in this step.
SomeOpens(c) == \E s \in Socks(c) : Opens(c, s)

\* C21: upstream close, upstream error, upstream message and reconnect-timer
\* expiry leave the pending buffer as it is. The buffer changes only by a
\* client frame being appended or by an upstream-open event emptying it, so
\* frames queued before a failed attempt stay queued, in order.
C21_BufferKeptAcrossFailures ==
    [][\A c \in Clients :
          /\ (UpstreamEvent(c) \/ TimerExpires(c)) /\ ~SomeOpens(c) =>
                 buffer'[c] = buffer[c]
          /\ buffer'[c] # buffer[c] =>
                 \/ /\ Receives(c)
                    /\ buffer'[c] = Append(buffer[c], clientLog'[c][Len(clientLog'[c])].f)
                 \/ SomeOpens(c) /\ buffer'[c] = <<>>]_vars

\* The first attempt failed, its timer expired and the second attempt is
\* under way: both frames the browser delivered are still queued, in the
\* order they came.
C21_Witness ==
    \E c \in Clients :
        /\ clientState[c] = "OPEN"
        /\ Len(socks[c]) = 2 /\ attempts[c] = 2 /\ timers[c] = 0
        /\ ~socks[c][1].opened /\ socks[c][1].readyState = "CLOSED"
        /\ socks[c][2].readyState = "CONNECTING"
        /\ Len(clientLog[c]) = 2
        /\ buffer[c] = Frames(clientLog[c])

\* The i-th thing clientSocket was sent is the status notification `state`.
IsStatus(c, i, state) ==
    toClient[c][i].type = "__index_status" /\ toClient[c][i].state = state

\* C22: the notifications a client receives fit one upstream at a time:
\* between any two connected notifications there is a disconnected one, and
\* after a disconnected notification no upstream frame is relayed before a
\* later connected notification.
C22_StatusesFitOneUpstream ==
    \A c \in Clients : \A i, j \in 1..Len(toClient[c]) :
        i < j =>
            /\ IsStatus(c, i, "connected") /\ IsStatus(c, j, "connected") =>
                   \E k \in (i + 1)..(j - 1) : IsStatus(c, k, "disconnected")
            /\ IsStatus(c, i, "disconnected") /\ toClient[c][j].by = "gateway" =>
                   \E k \in (i + 1)..(j - 1) : IsStatus(c, k, "connected")

\* The client saw the first upstream come up, relay a frame and go away, and
\* the second upstream come up and relay a frame.
C22_Witness ==
    \E c \in Clients :
        /\ Len(toClient[c]) = 5
        /\ IsStatus(c, 1, "connected")
        /\ toClient[c][2].by = "gateway"
        /\ IsStatus(c, 3, "disconnected")
        /\ IsStatus(c, 4, "connected")
        /\ toClient[c][5].by = "gateway"

\* ---------------------------------------------------------------- REST proxy
\* app.all('/api/*'): the handler runs up to its first await, the fetch of the
\* gateway URL.  chat is the chat message the request carries (0 for none),
\* status is res.statusCode, sent the responses written so far; gw and failed
\* record what the gateway call did.
Arrived(method, chat) ==
    [pc |-> "fetch", method |-> method, chat |-> chat, status |-> 200, ct |-> "",
     sent |-> <<>>, gw |-> 0, failed |-> FALSE]

\* A catch branch that leaves the status code as it was set before.
Unreachable_KeepsStatus(q) ==
    [q EXCEPT !.pc = "done", !.failed = TRUE,
              !.sent = Append(@, [status |-> q.status, error |-> "gateway_unreachable"])]

\* res.status(502).json({error: 'gateway_unreachable', ...})
Unreachable(q) ==
    [q EXCEPT !.pc = "done", !.failed = TRUE, !.status = BadGateway,
              !.sent = Append(@, [status |-> BadGateway, error |-> "gateway_unreachable"])]

\* A request for /api/... arrives.
ProxyRequest(method) ==
    /\ Len(reqs) < MaxRequests
    /\ reqs' = Append(reqs, Arrived(method, 0))
    /\ UNCHANGED gatewayGot

\* fetch(url, ...) rejects: the gateway cannot be reached.
FetchRejects(r) ==
    /\ reqs[r].pc = "fetch"
    /\ reqs' = [reqs EXCEPT ![r] = Unreachable(@)]
    /\ UNCHANGED gatewayGot

\* fetch(url, ...) resolves: the gateway got the request and answered with
\* status st and content type ct; res.status(upstream.status).
FetchResolves(r, st, ct) ==
    /\ reqs[r].pc = "fetch"
    /\ reqs' = [reqs EXCEPT ![r] = [@ EXCEPT !.pc = "read", !.status = st,
                                             !.gw = st, !.ct = ct]]
    /\ gatewayGot' = IF reqs[r].chat = 0 THEN gatewayGot
                     ELSE Append(gatewayGot, [chat |-> reqs[r].chat, via |-> "rest"])

\* upstream.json() or upstream.text() resolves: res.json(data) or
\* res.type('text').send(text).
BodyRead(r) ==
    /\ reqs[r].pc = "read"
    /\ reqs' = [reqs EXCEPT ![r] =
           [@ EXCEPT !.pc = "done",
                     !.sent = Append(@, [status |-> reqs[r].status, error |-> ""])]]
    /\ UNCHANGED gatewayGot

\* upstream.json() or upstream.text() rejects: the catch branch answers.
BodyFails(r) ==
    /\ reqs[r].pc = "read"
    /\ reqs' = [reqs EXCEPT ![r] = Unreachable(@)]
    /\ UNCHANGED gatewayGot

\* ---------------------------------------------------------------- the page
\* The page keeps state.ws and state.connected.  Init is the page after its
\* script ran: connectWS() was called once.  Frames of other types than the
\* chat message and the data the page loads change neither and are left out.

\* handleGatewayMessage(msg): state.connected after msg.
Handled(msg) ==
    IF msg.type = "__index_status"
    THEN (IF msg.state = "connected" THEN TRUE
          ELSE IF msg.state = "disconnected" THEN FALSE
          ELSE connected)
    ELSE connected

\* ws.onopen of the page's socket k.
PageOpen(k) ==
    /\ pageSocks[k].readyState = "CONNECTING"
    /\ pageSocks' = [pageSocks EXCEPT ![k].readyState = "OPEN"]
    /\ UNCHANGED <<stateWs, connected, pageTimers, inflight, chats, chatOf, reqs,
                   gatewayGot>>

\* ws.onmessage of the page's socket k with the frame msg.
PageMessage(k, msg) ==
    /\ pageSocks[k].readyState = "OPEN"
    /\ connected' = Handled(msg)
    /\ UNCHANGED <<pageSocks, stateWs, pageTimers, inflight, chats, chatOf, reqs,
                   gatewayGot>>

\* The server starts the closing handshake of socket k: readyState leaves
\* OPEN in a task of its own, before the close event is fired.
PageClosing(k) ==
    /\ pageSocks[k].readyState = "OPEN"
    /\ pageSocks' = [pageSocks EXCEPT ![k].readyState = "CLOSING"]
    /\ UNCHANGED <<stateWs, connected, pageTimers, inflight, chats, chatOf, reqs,
                   gatewayGot>>

\* ws.onclose of the page's socket k.
PageClose(k) ==
    /\ pageSocks[k].readyState \in {"OPEN", "CLOSING"}
    /\ pageSocks' = [pageSocks EXCEPT ![k].readyState = "CLOSED"]
    /\ connected' = FALSE
    /\ pageTimers' = pageTimers + 1
    /\ UNCHANGED <<stateWs, inflight, chats, chatOf, reqs, gatewayGot>>

\* The connection of socket k fails whose onerror also calls
\* setTimeout(connectWS, 4000).
PageFail_ErrorReconnects(k) ==
    /\ pageSocks[k].readyState \in {"CONNECTING", "OPEN", "CLOSING"}
    /\ pageSocks' = [pageSocks EXCEPT ![k].readyState = "CLOSED", ![k].errored = TRUE]
    /\ connected' = FALSE
    /\ pageTimers' = pageTimers + 2
    /\ UNCHANGED <<stateWs, inflight, chats, chatOf, reqs, gatewayGot>>

\* The connection of socket k fails (no handshake, or the connection is lost):
\* the browser fires ws.onerror and then ws.onclose in one task.
PageFail(k) ==
    /\ pageSocks[k].readyState \in {"CONNECTING", "OPEN", "CLOSING"}
    /\ pageSocks' = [pageSocks EXCEPT ![k].readyState = "CLOSED", ![k].errored = TRUE]
    /\ connected' = FALSE
    /\ pageTimers' = pageTimers + 1
    /\ UNCHANGED <<stateWs, inflight, chats, chatOf, reqs, gatewayGot>>

\* A pending timer of the page expires: connectWS().
PageTimer ==
    /\ pageTimers > 0
    /\ Len(pageSocks) < MaxPageSockets
    /\ pageTimers' = pageTimers - 1
    /\ pageSocks' = Append(pageSocks, [readyState |-> "CONNECTING", errored |-> FALSE])
    /\ stateWs' = Len(pageSocks) + 1
    /\ UNCHANGED <<connected, inflight, chats, chatOf, reqs, gatewayGot>>

\* wsSend(obj): what is in flight to the bridge after the page sent chat m.
WsSend(m) ==
    IF pageSocks[stateWs].readyState = "OPEN"
    THEN Append(inflight, [sock |-> stateWs, chat |-> m])
    ELSE inflight

\* The bridge of connection c has no upstream: it created one and each one
\* it created is closed.
GatewayDown(c) ==
    /\ c \in Clients
    /\ Len(socks[c]) > 0
    /\ \A s \in Socks(c) : socks[c][s].readyState = "CLOSED"

\* sendChatMessage() with a non-empty text: the frame over the socket, and the
\* POST to /api/agent when state.connected is false, which the proxy takes up.
SendChatMessage ==
    /\ Len(chats) < MaxChats
    /\ LET m == Len(chats) + 1 IN
       /\ inflight' = WsSend(m)
       /\ reqs' = IF connected THEN reqs ELSE Append(reqs, Arrived("POST", m))
       /\ chats' = Append(chats, [ws |-> pageSocks[stateWs].readyState = "OPEN",
                                  rest |-> ~connected,
                                  down |-> GatewayDown(stateWs)])
    /\ UNCHANGED <<pageSocks, stateWs, connected, pageTimers, chatOf, gatewayGot>>

\* What the proxy leaves alone.
proxyRest == <<pageSocks, stateWs, connected, pageTimers, seen, inflight, chats, chatOf>>

ProxyNext ==
    \/ \E m \in Methods : ProxyRequest(m) /\ UNCHANGED <<bridgeVars, proxyRest>>
    \/ \E r \in 1..Len(reqs) : FetchRejects(r) /\ UNCHANGED <<bridgeVars, proxyRest>>
    \/ \E r \in 1..Len(reqs) : \E st \in GatewayStatuses : \E ct \in ContentTypes :
           FetchResolves(r, st, ct) /\ UNCHANGED <<bridgeVars, proxyRest>>
    \/ \E r \in 1..Len(reqs) : BodyRead(r) /\ UNCHANGED <<bridgeVars, proxyRest>>
    \/ \E r \in 1..Len(reqs) : BodyFails(r) /\ UNCHANGED <<bridgeVars, proxyRest>>

ProxySpec == Init /\ [][ProxyNext]_vars

\* ---------------------------------------------------------------- page, bridge and proxy
\* The page's socket k is the clientSocket of the bridge's connection k.

\* The bridge accepts the connection of a socket the page has set up.
ChatAccept(c) ==
    /\ c <= Len(pageSocks)
    /\ pageSocks[c].readyState = "CONNECTING"
    /\ Accept(c)
    /\ UNCHANGED pageVars

\* The page's socket learns that the server accepted.
ChatOpen(k) ==
    /\ k \in Served
    /\ clientState[k] # "NONE"
    /\ PageOpen(k)
    /\ UNCHANGED <<bridgeVars, seen>>

\* The oldest frame in flight reaches the bridge.
ChatDeliver(c) ==
    /\ inflight # <<>>
    /\ Head(inflight).sock = c
    /\ ClientMessage(c, "message")
    /\ inflight' = Tail(inflight)
    /\ chatOf' = Append(chatOf, [conn |-> c, n |-> Len(clientLog[c]) + 1,
                                 chat |-> Head(inflight).chat])
    /\ UNCHANGED <<pageSocks, stateWs, connected, pageTimers, seen, chats, reqs,
                   gatewayGot>>

\* The next frame the bridge sent reaches the page.
ChatReceive(k) ==
    /\ k \in Served
    /\ seen < Len(toClient[k])
    /\ PageMessage(k, toClient[k][seen + 1])
    /\ seen' = seen + 1
    /\ UNCHANGED bridgeVars

\* One session of the page: its socket stays up, the gateway comes and goes,
\* and it answers POST /agent with 200 and a JSON body when it is reached.
ChatNext ==
    \/ \E c \in Served : ChatAccept(c)
    \/ \E c \in Served : ChatDeliver(c)
    \/ \E c \in Served : \E s \in Socks(c) : GatewayOpen(c, s) /\ UNCHANGED pageVars
    \/ \E c \in Served : \E s \in Socks(c) : GatewayMessage(c, s) /\ UNCHANGED pageVars
    \/ \E c \in Served : \E s \in Socks(c) : GatewayError(c, s) /\ UNCHANGED pageVars
    \/ \E c \in Served : \E s \in Socks(c) : GatewayClosing(c, s) /\ UNCHANGED pageVars
    \/ \E c \in Served : \E s \in Socks(c) : GatewayClose(c, s) /\ UNCHANGED pageVars
    \/ \E c \in Served : \E s \in Socks(c) : GatewayConnectFail(c, s) /\ UNCHANGED pageVars
    \/ \E c \in Served : TimerFire(c) /\ UNCHANGED pageVars
    \/ \E k \in 1..Len(pageSocks) : ChatOpen(k)
    \/ \E k \in 1..Len(pageSocks) : ChatReceive(k)
    \/ SendChatMessage /\ UNCHANGED <<bridgeVars, seen>>
    \/ \E r \in 1..Len(reqs) : FetchRejects(r) /\ UNCHANGED <<bridgeVars, proxyRest>>
    \/ \E r \in 1..Len(reqs) : FetchResolves(r, 200, "json") /\ UNCHANGED <<bridgeVars, proxyRest>>
    \/ \E r \in 1..Len(reqs) : BodyRead(r) /\ UNCHANGED <<bridgeVars, proxyRest>>
    \/ \E r \in 1..Len(reqs) : BodyFails(r) /\ UNCHANGED <<bridgeVars, proxyRest>>

ChatSpec == Init /\ [][ChatNext]_vars

\* The entries of clientLog that carry chat message m and were passed to
\* gatewaySocket.send.
WsCopies(m) ==
    {i \in 1..Len(chatOf) :
        /\ chatOf[i].chat = m
        /\ \E j \in 1..Len(toGateway[chatOf[i].conn]) :
               toGateway[chatOf[i].conn][j].f.n = chatOf[i].n}

\* The POSTs of chat message m that the gateway received.
RestCopies(m) == {i \in 1..Len(gatewayGot) : gatewayGot[i].chat = m}

\* C23 (as stated): a chat message submitted while the gateway is down and
\* the page's socket to the bridge is open reaches the gateway at most once:
\* the copy sent over the socket and the REST fallback POST never both
\* deliver it.
C23_ChatDeliveredOnce ==
    \A m \in 1..Len(chats) :
        chats[m].down /\ chats[m].ws =>
            ~(WsCopies(m) # {} /\ RestCopies(m) # {})

\* ---------------------------------------------------------------- the page alone
\* What the page's socket may deliver: a status notification of the bridge or
\* a frame of the gateway.
PageFrames ==
    {StatusFrame(1, state) : state \in {"connected", "disconnected", "error"}} \cup
    {[by |-> "gateway", conn |-> 1, type |-> "pong", state |-> "", n |-> 0]}

\* The handlers of the page, whatever the server does.
PageNext ==
    \/ \E k \in 1..Len(pageSocks) : PageOpen(k) /\ UNCHANGED <<bridgeVars, seen>>
    \/ \E k \in 1..Len(pageSocks) : \E msg \in PageFrames :
           PageMessage(k, msg) /\ UNCHANGED <<bridgeVars, seen>>
    \/ \E k \in 1..Len(pageSocks) : PageClosing(k) /\ UNCHANGED <<bridgeVars, seen>>
    \/ \E k \in 1..Len(pageSocks) : PageClose(k) /\ UNCHANGED <<bridgeVars, seen>>
    \/ \E k \in 1..Len(pageSocks) : PageFail(k) /\ UNCHANGED <<bridgeVars, seen>>
    \/ PageTimer /\ UNCHANGED <<bridgeVars, seen>>
    \/ SendChatMessage /\ UNCHANGED <<bridgeVars, seen>>

PageSpec == Init /\ [][PageNext]_vars

\* The page's sockets whose readyState is in rs.
PageSocksIn(rs) == {k \in 1..Len(pageSocks) : pageSocks[k].readyState \in rs}

\* The close event of the page's socket k is fired in this step.
PageCloses(k) ==
    pageSocks[k].readyState # "CLOSED" /\ pageSocks'[k].readyState = "CLOSED"

\* Every close of the bridge socket sets state.connected to false and
\* schedules exactly one connectWS call, an error event adding none; and at
\* most one socket is connecting or open at any time.
PageReconnectsOnce ==
    /\ [](Cardinality(PageSocksIn({"CONNECTING", "OPEN"})) <= 1)
    /\ [][\A k \in 1..Len(pageSocks) :
            PageCloses(k) => ~connected' /\ pageTimers' = pageTimers + 1]_vars

\* C24 (as stated): every close sets state.connected to false and schedules
\* exactly one connectWS call, an error event none, so at most one socket is
\* connecting or open at any time, and state.connected is never true while no
\* socket is open.
C24_ConnectedOnlyWhileOpen ==
    /\ PageReconnectsOnce
    /\ [](connected => PageSocksIn({"OPEN"}) # {})

\* C24 (amended): as stated, except that state.connected may stay true while
\* the socket is closing: it is never true once the close event of the
\* socket was fired, that is while no socket is open or closing. Moreover a
\* socket and a pending connectWS timer never exist together.
C24_ConnectedUntilCloseEvent ==
    /\ PageReconnectsOnce
    /\ [](connected => PageSocksIn({"OPEN", "CLOSING"}) # {})
    /\ [](Cardinality(PageSocksIn({"CONNECTING", "OPEN", "CLOSING"})) + pageTimers <= 1)

\* The first socket was told the gateway is connected and then failed with an
\* error and a close; the one timer this set has expired and the second
\* socket is open, state.connected being false.
C24_Witness ==
    /\ Len(pageSocks) = 2 /\ stateWs = 2
    /\ pageSocks[1].readyState = "CLOSED" /\ pageSocks[1].errored
    /\ pageSocks[2].readyState = "OPEN"
    /\ pageTimers = 0 /\ ~connected

\* C25: for any /api/* request, if the call to the gateway fails (the gateway
\* cannot be reached, or reading its response fails) the proxy answers with
\* status 502 and error gateway_unreachable; when the gateway answers, the
\* response carries the gateway's own status code; and exactly one response
\* is sent per request.
C25_ProxyAnswersOnce ==
    \A r \in 1..Len(reqs) :
        LET q == reqs[r] IN
        /\ Len(q.sent) = (IF q.pc = "done" THEN 1 ELSE 0)
        /\ q.failed =>
               q.sent = <<[status |-> BadGateway, error |-> "gateway_unreachable"]>>
        /\ q.pc = "done" /\ ~q.failed =>
               /\ q.gw \in GatewayStatuses
               /\ q.sent = <<[status |-> q.gw, error |-> ""]>>

\* Two requests were answered: the gateway answered the first with 200 but its
\* body could not be read, and the second with 404.
C25_Witness ==
    /\ Len(reqs) = 2
    /\ reqs[1].pc = "done" /\ reqs[1].gw = 200 /\ reqs[1].failed
    /\ reqs[1].sent[1].status = BadGateway
    /\ reqs[2].pc = "done" /\ reqs[2].gw = 404 /\ ~reqs[2].failed
    /\ reqs[2].sent[1].status = 404

====
